---- MODULE Spec2Model ----
(***************************************************************************)
(* Model of the OOH media-plan application: the allocation editor of the   *)
(* dashboard (handleAllocationChange), the plan store kept in App          *)
(* (savedPlans + localStorage 'ooh_saved_plans'), the view router and the  *)
(* two-phase generation pipeline (handleGeneratePlan).                     *)
(*                                                                         *)
(* Numbers.  JavaScript numbers are modelled as fixed-point values with    *)
(* one decimal digit: the integer n stands for n/Scale.  A budget of       *)
(* 20000 is 200000, a percentage of 33.0 is 330.  Math.round and           *)
(* toFixed(1) are computed exactly on rationals (round half up), which is  *)
(* what the code computes up to binary floating-point error.               *)
(*                                                                         *)
(* Objects.  JavaScript objects and arrays are shared by reference.  Every *)
(* allocation object carries its identity in the field ref and every       *)
(* allocations array its identity in the plan field arr.  A holder (the    *)
(* open plan, an entry of savedPlans, an entry of comparePlans) stores a   *)
(* copy of the content; an in-place write to an object is applied to every *)
(* holder that has an object of the same identity.  JSON text has no       *)
(* identities: JSON.stringify drops them and JSON.parse makes new objects. *)
(***************************************************************************)
EXTENDS Integers, Sequences, FiniteSets, TLC

VARIABLES
    view,          \* App.tsx:13  'onboarding' | 'config' | 'dashboard' | 'history' | 'compare'
    profile,       \* App.tsx:14  UserProfile | null
    plan,          \* App.tsx:15  AdPlan | null (the open plan)
    isProcessing,  \* App.tsx:16
    isReadOnly,    \* App.tsx:18
    savedPlans,    \* App.tsx:21
    comparePlans,  \* App.tsx:22
    storage,       \* localStorage item 'ooh_saved_plans'
    gen,           \* the pending handleGeneratePlan call (its await position and locals)
    clock,         \* Date.now()
    booted,        \* FALSE until the mount effect of App has run
    nEdits,        \* allocation edits made so far
    steps,         \* operations run so far
    hash,          \* window.location.hash
    savedKind,     \* "list" when savedPlans holds an array, else "nonlist"
    crashed,       \* TRUE once a render has thrown (the page is blank)
    otherTab,      \* a second tab on the same localStorage: its savedPlans
    selectedIds,   \* PlanHistory: the ids ticked for comparison
    last           \* history variable: the last operation and what it was applied to

vars == <<view, profile, plan, isProcessing, isReadOnly, savedPlans, comparePlans,
          storage, gen, clock, booted, nEdits, steps, hash, savedKind, crashed,
          otherTab, selectedIds, last>>

-----------------------------------------------------------------------------
(* Bounds *)

\* the longest text typed into a field of an exported allocation
MaxText == 2

MaxAllocs == 2          \* allocations per plan drawn for the editor's input space
MaxSaved == 2           \* entries of the saved collection
MaxClock == 2           \* Date.now() values handed out
MaxEdits == 1           \* allocation edits in one run of the application
MaxSteps == 10          \* operations (user actions, resolutions of calls) in one run
BudgetCap == 1000000    \* largest totalBudget (in 1/Scale units) an edit may produce

\* one more operation of the run, while the run may go on
Tick == steps < MaxSteps /\ steps' = steps + 1

-----------------------------------------------------------------------------
(* Fixed-point arithmetic *)

Scale == 10

Min(a, b) == IF a < b THEN a ELSE b
Max(a, b) == IF a > b THEN a ELSE b

\* Math.round(num/den) for den > 0: floor(x + 1/2)
MathRound(num, den) == (2 * num + den) \div (2 * den)

\* Number(e.target.value) for an <input type="number">: the browser hands
\* over either the empty string or a numeric string.
ToNumber(value) == IF value.empty THEN 0 ELSE value.n

RawEmpty == [empty |-> TRUE, n |-> 0]
RawNum(n) == [empty |-> FALSE, n |-> n]

\* mutant: the digits after the first decimal are cut off instead of rounded
ToFixed1PctTruncated(budget, total) == (100 * Scale * budget) \div total

\* mutant: the share is stored as a fraction of 1, not of 100
ToFixed1PctFraction(budget, total) == MathRound(Scale * budget, total)

\* Number(((budget / total) * 100).toFixed(1)), total > 0, budget >= 0
ToFixed1Pct(budget, total) == MathRound(100 * Scale * budget, total)

RECURSIVE SumBudgetsFrom(_, _)
SumBudgetsFrom(allocs, i) ==
    IF i > Len(allocs) THEN 0 ELSE allocs[i].budget + SumBudgetsFrom(allocs, i + 1)

\* allocations.reduce((sum, item) => sum + item.budget, 0)
SumBudgets(allocs) == SumBudgetsFrom(allocs, 1)

\* plan.allocations.reduce((sum, item, i) => i === index ? sum : sum + item.budget, 0)
OtherBudget(allocs, index) == SumBudgets(allocs) - allocs[index].budget

Range(s) == {s[i] : i \in DOMAIN s}

-----------------------------------------------------------------------------
(* Object identities *)

NullPlan == [null |-> TRUE]
NullProfile == [null |-> TRUE]

HeldPlans ==
    (IF plan = NullPlan THEN {} ELSE {plan}) \cup Range(savedPlans) \cup Range(comparePlans)

ObjRefsOf(p) == {p.allocations[i].ref : i \in DOMAIN p.allocations}

UsedObjRefs == UNION {ObjRefsOf(p) : p \in HeldPlans}
UsedArrRefs == {p.arr : p \in HeldPlans}

\* the k-th smallest identity (k >= 1) that no holder uses
NthFree(used, k) ==
    LET free == (0..(Cardinality(used) + k)) \ used
    IN  CHOOSE x \in free : Cardinality({y \in free : y < x}) = k - 1

-----------------------------------------------------------------------------
(* Allocation editor: PlanDashboard.handleAllocationChange *)

\* [field]: value of the object spread
SetField(obj, field, value) ==
    [k \in DOMAIN obj \cup {field} |-> IF k = field THEN value ELSE obj[k]]

\* Math.min(100, Math.max(0, Number(value)))
ClampPercentage(value) == Min(100 * Scale, Max(0, ToNumber(value)))

\* mutant: the budget is taken as the share of the other budgets
PercentageToBudgetOfOthers(p, index, value) ==
    LET newPercentage == Min(100 * Scale, Max(0, ToNumber(value)))
        otherBudget == OtherBudget(p.allocations, index)
    IN  IF otherBudget = 0
        THEN Scale * MathRound(p.totalBudget * newPercentage, 100 * Scale * Scale)
        ELSE Scale * MathRound(otherBudget * newPercentage, 100 * Scale * Scale)

\* mutant: the cap at 99.9 is applied before the branch on otherBudget
PercentageToBudgetCapFirst(p, index, value) ==
    LET clamped == Min(100 * Scale, Max(0, ToNumber(value)))
        newPercentage == IF clamped >= 999 THEN 999 ELSE clamped
        otherBudget == OtherBudget(p.allocations, index)
    IN  IF otherBudget = 0
        THEN Scale * MathRound(p.totalBudget * newPercentage, 100 * Scale * Scale)
        ELSE Scale * MathRound(otherBudget * newPercentage,
                               Scale * (100 * Scale - newPercentage))

\* the budget the percentage branch stores for the edited allocation
PercentageToBudget(p, index, value) ==
    LET newPercentage == ClampPercentage(value)
        otherBudget == OtherBudget(p.allocations, index)
    IN  IF otherBudget = 0
        THEN Scale * MathRound(p.totalBudget * newPercentage, 100 * Scale * Scale)
        ELSE LET capped == IF newPercentage >= 999 THEN 999 ELSE newPercentage
             IN  Scale * MathRound(otherBudget * capped, Scale * (100 * Scale - capped))

\* mutant: the budget is stored as typed, negative or not
ClampBudgetNone(value) == ToNumber(value)

\* Math.max(0, Number(value))
ClampBudget(value) == Max(0, ToNumber(value))

\* mutant: the plan's total is treated as fixed
NewTotalBudgetFixed(p, newAllocations) == p.totalBudget

\* const newTotalBudget = newAllocations.reduce((sum, item) => sum + item.budget, 0)
NewTotalBudget(p, newAllocations) == SumBudgets(newAllocations)

\* mutant: every budget is rewritten from its stored percentage of the new total
RecomputeBudgets(newAllocations, newTotalBudget) ==
    [i \in DOMAIN newAllocations |->
        [newAllocations[i] EXCEPT
            !.budget = Scale * MathRound(newAllocations[i].percentage * newTotalBudget,
                                         100 * Scale * Scale)]]

\* newAllocations.forEach((item, i) => newAllocations[i].percentage = ...),
\* run only when newTotalBudget > 0
Recompute(newAllocations, newTotalBudget) ==
    IF newTotalBudget > 0
    THEN [i \in DOMAIN newAllocations |->
             [newAllocations[i] EXCEPT
                 !.percentage = ToFixed1Pct(newAllocations[i].budget, newTotalBudget)]]
    ELSE newAllocations

\* mutant: the text branch sums and recomputes as the numeric branches do
handleAllocationChangeRecomputing(p, index, field, value, newRef, newArr) ==
    LET newAllocations ==
            [p.allocations EXCEPT
                ![index] = IF field = "percentage"
                           THEN [@ EXCEPT !.budget = PercentageToBudget(p, index, value),
                                          !.ref = newRef]
                           ELSE IF field = "budget"
                           THEN [@ EXCEPT !.budget = ClampBudget(value), !.ref = newRef]
                           ELSE [SetField(@, field, value) EXCEPT !.ref = newRef]]
        newTotalBudget == NewTotalBudget(p, newAllocations)
    IN  [p EXCEPT !.totalBudget = newTotalBudget,
                  !.allocations = Recompute(newAllocations, newTotalBudget),
                  !.arr = newArr]

\* The plan handed to onUpdatePlan.  newAllocations is a new array (arr) and
\* the edited entry a new object (ref); the other entries are the objects of
\* the old array.
handleAllocationChange(p, index, field, value, newRef, newArr) ==
    IF field = "percentage" \/ field = "budget"
    THEN LET newBudget == IF field = "percentage"
                          THEN PercentageToBudget(p, index, value)
                          ELSE ClampBudget(value)
             newAllocations == [p.allocations EXCEPT
                                   ![index] = [@ EXCEPT !.budget = newBudget, !.ref = newRef]]
             newTotalBudget == NewTotalBudget(p, newAllocations)
         IN  [p EXCEPT !.totalBudget = newTotalBudget,
                       !.allocations = Recompute(newAllocations, newTotalBudget),
                       !.arr = newArr]
    ELSE [p EXCEPT !.allocations =
                       [p.allocations EXCEPT
                           ![index] = [SetField(@, field, value) EXCEPT !.ref = newRef]],
                   !.arr = newArr]

\* The in-place writes of the forEach: the objects other than the edited one
\* are shared with every holder of the old array's entries, so their
\* percentage changes there too.
WrittenPercentages(old, new, index) ==
    [r \in {old.allocations[i].ref : i \in DOMAIN old.allocations \ {index}} |->
        LET i == CHOOSE j \in DOMAIN old.allocations : old.allocations[j].ref = r
        IN  new.allocations[i].percentage]

ApplyWrites(p, writes) ==
    [p EXCEPT !.allocations =
        [i \in DOMAIN p.allocations |->
            IF p.allocations[i].ref \in DOMAIN writes
            THEN [p.allocations[i] EXCEPT !.percentage = writes[p.allocations[i].ref]]
            ELSE p.allocations[i]]]

ApplyWritesAll(plans, writes) == [k \in DOMAIN plans |-> ApplyWrites(plans[k], writes)]

-----------------------------------------------------------------------------
(* JSON text of the saved collection *)

NoItem == [item |-> "absent"]

\* mutant: only the required members of an allocation are written
StringifyAllocRequiredOnly(a) ==
    [k \in {"type", "name", "percentage", "budget", "reasoning"} |-> a[k]]

\* JSON.stringify of an allocation / a plan: the members, without identity
StringifyAlloc(a) == [k \in DOMAIN a \ {"ref"} |-> a[k]]

StringifyPlan(p) ==
    [k \in DOMAIN p \ {"arr"} |->
        IF k = "allocations"
        THEN [i \in DOMAIN p.allocations |-> StringifyAlloc(p.allocations[i])]
        ELSE p[k]]

\* JSON.stringify(newSaved)
JSONstringify(plans) ==
    [item |-> "text", json |-> [k \in DOMAIN plans |-> StringifyPlan(plans[k])]]

\* number of allocation objects in the first k entries of a parsed list
RECURSIVE AllocsBefore(_, _)
AllocsBefore(json, k) ==
    IF k = 0 THEN 0 ELSE Len(json[k].allocations) + AllocsBefore(json, k - 1)

\* JSON.parse(stored): every array and object of the result is new
JSONparse(text, usedObj, usedArr) ==
    [k \in DOMAIN text.json |->
        LET j == text.json[k]
            base == AllocsBefore(text.json, k - 1)
        IN  [f \in DOMAIN j \cup {"arr"} |->
                IF f = "arr" THEN NthFree(usedArr, k)
                ELSE IF f = "allocations"
                THEN [i \in DOMAIN j.allocations |->
                         [g \in DOMAIN j.allocations[i] \cup {"ref"} |->
                             IF g = "ref" THEN NthFree(usedObj, base + i)
                             ELSE j.allocations[i][g]]]
                ELSE j[f]]]

-----------------------------------------------------------------------------
(* Inputs *)

\* answers of the questionnaire
Profiles == { [brandName |-> "", products |-> "tea"] }

\* the budget field of the configuration form
GenBudgets == {100000}

\* the channel types ticked in the configuration form
SelectedTypeChoices == { <<>>, <<"App">> }

\* what the dashboard's inputs hand to handleAllocationChange
EditFields == {"percentage", "budget", "reasoning"}
NumberInputs == {RawEmpty, RawNum(500)}
TextInputs == {"edited"}

\* the analysis of initialPlan: the placeholders shown while performAnalysis runs
PendingAnalysis ==
    [roi |-> "ANALYSIS_PENDING", swot |-> "ANALYSIS_PENDING",
     marketing4p |-> "ANALYSIS_PENDING", competitorInsight |-> "ANALYSIS_PENDING",
     creativeSuggestions |-> "SUGGESTIONS_PENDING"]

\* What the search request of performAnalysis can come to: it throws, or it
\* answers with a text (the list of sources appended to it is left out), or
\* with no text.
SearchThrew == [threw |-> TRUE, text |-> ""]
SearchText == [threw |-> FALSE, text |-> "insight"]
SearchNoText == [threw |-> FALSE, text |-> ""]
SearchOutcomes == {SearchThrew, SearchText, SearchNoText}

\* What the analysis request can come to: it throws, or it answers with the
\* JSON text of the four sections, with no text, or with text that is not JSON.
RequestThrew == [threw |-> TRUE, text |-> "none"]
RequestJson ==
    [threw |-> FALSE, text |-> "json",
     data |-> [roi |-> "roi", swot |-> "swot", marketing4p |-> "4p",
               creativeSuggestions |-> "creative"]]
RequestNoText == [threw |-> FALSE, text |-> "none"]
RequestNotJson == [threw |-> FALSE, text |-> "malformed"]
RequestOutcomes == {RequestThrew, RequestJson, RequestNoText, RequestNotJson}

\* mutant: the catch branch of the search leaves competitorInsight as it is
performAnalysisNoSearchFallback(search, request) ==
    LET competitorInsight == IF search.threw THEN ""
                             ELSE IF search.text = "" THEN "NO_MARKET_DATA"
                             ELSE search.text
    IN  IF ~request.threw /\ request.text = "json"
        THEN [f \in DOMAIN request.data \cup {"competitorInsight"} |->
                 IF f = "competitorInsight" THEN competitorInsight ELSE request.data[f]]
        ELSE [roi |-> "ANALYSIS_FAILED", swot |-> "ANALYSIS_FAILED",
              marketing4p |-> "ANALYSIS_FAILED", competitorInsight |-> competitorInsight,
              creativeSuggestions |-> "SUGGESTIONS_FAILED"]

\* performAnalysis: competitorInsight from the search (its fallbacks for a
\* throw and for an empty text), then { ...data, competitorInsight } or the
\* fixed sections of the final return
performAnalysis(search, request) ==
    LET competitorInsight == IF search.threw THEN "MARKET_DATA_UNAVAILABLE"
                             ELSE IF search.text = "" THEN "NO_MARKET_DATA"
                             ELSE search.text
    IN  IF ~request.threw /\ request.text = "json"
        THEN [f \in DOMAIN request.data \cup {"competitorInsight"} |->
                 IF f = "competitorInsight" THEN competitorInsight ELSE request.data[f]]
        ELSE [roi |-> "ANALYSIS_FAILED", swot |-> "ANALYSIS_FAILED",
              marketing4p |-> "ANALYSIS_FAILED", competitorInsight |-> competitorInsight,
              creativeSuggestions |-> "SUGGESTIONS_FAILED"]

\* the outcomes drawn in a run of the application: both requests answer, both throw
AnalysisOutcomes == {<<SearchText, RequestJson>>, <<SearchThrew, RequestThrew>>}

AnalysisAnswers == {performAnalysis(o[1], o[2]) : o \in AnalysisOutcomes}

\* PlanDashboard.isAnalysisLoading
isAnalysisLoading(content) ==
    content = "" \/ content = "ANALYSIS_PENDING" \/ content = "SUGGESTIONS_PENDING"

\* An answer of the allocation service: a 60/40 split over two channels.
AiAllocations(totalBudget) ==
    << [type |-> "UnitDoor", name |-> "Lightbox", percentage |-> 60 * Scale,
        budget |-> (totalBudget * 6) \div 10, reasoning |-> "reach",
        specifications |-> "A3"],
       [type |-> "App", name |-> "App splash", percentage |-> 40 * Scale,
        budget |-> (totalBudget * 4) \div 10, reasoning |-> "recall",
        specifications |-> "full screen"] >>

\* generatePlanAllocations, catch branch
FallbackAllocations(totalBudget, selectedTypes) ==
    LET defaults == IF Len(selectedTypes) >= 1 THEN selectedTypes
                    ELSE <<"UnitDoor", "AdDoor">>
        sliced == SubSeq(defaults, 1, Min(3, Len(defaults)))
    IN  [i \in DOMAIN sliced |->
            [type |-> sliced[i], name |-> sliced[i], percentage |-> 33 * Scale,
             budget |-> Scale * MathRound(totalBudget * 33, 100 * Scale),
             reasoning |-> "FALLBACK_REASONING", location |-> "FALLBACK_LOCATION"]]

\* the objects of a list that came out of JSON.parse or of the map() above
WithRefs(allocs, usedObj) ==
    [i \in DOMAIN allocs |->
        [g \in DOMAIN allocs[i] \cup {"ref"} |->
            IF g = "ref" THEN NthFree(usedObj, i) ELSE allocs[i][g]]]

\* Date.now().toString()
IdOf(t) == <<"id", t>>

\* `${profile.brandName || profile.products} ...`
PlanName(prof) == <<IF prof.brandName # "" THEN prof.brandName ELSE prof.products, "PLAN_SUFFIX">>

-----------------------------------------------------------------------------
(* Share token: btoa(JSON.stringify(plan)) and JSON.parse(atob(base64Data)) *)

\* The texts of the model that stand for strings of the source with characters
\* above U+00FF (the Chinese literals of App.tsx and geminiService.ts).
WideStrings ==
    {"PLAN_SUFFIX", "ANALYSIS_PENDING", "SUGGESTIONS_PENDING", "ANALYSIS_FAILED",
     "SUGGESTIONS_FAILED", "MARKET_DATA_UNAVAILABLE", "NO_MARKET_DATA",
     "FALLBACK_REASONING", "FALLBACK_LOCATION"}

\* the strings of the JSON text of a plan
StringsOf(json) ==
    {json.name[1], json.name[2], json.duration}
    \cup Range(json.regions)
    \cup {json.userProfile[f] : f \in DOMAIN json.userProfile}
    \cup {json.analysis[f] : f \in DOMAIN json.analysis}
    \cup UNION {{json.allocations[i][f] : f \in DOMAIN json.allocations[i] \ {"percentage", "budget"}}
                 : i \in DOMAIN json.allocations}

Threw == [threw |-> TRUE]

\* the text JSON.stringify(plan) of handleShare
PlanText(p) == [item |-> "plan", json |-> StringifyPlan(p)]

\* btoa(text): InvalidCharacterError when a character is above U+00FF
btoa(text) ==
    IF StringsOf(text.json) \cap WideStrings # {}
    THEN Threw
    ELSE [threw |-> FALSE, b64 |-> TRUE, text |-> text]

\* window.location.hash
NoHash == [kind |-> "none"]
ShareHash(data) == [kind |-> "share", data |-> data]

\* JSON.parse(atob(base64Data)) of the mount effect: atob throws when the data
\* is not base64, JSON.parse when the decoded text is not JSON; the plan that
\* comes out is made of new objects
DecodeShare(h, usedObj, usedArr) ==
    IF h.kind = "share" /\ h.data.b64 /\ h.data.text.item = "plan"
    THEN [ok |-> TRUE,
          plan |-> JSONparse([item |-> "text", json |-> <<h.data.text.json>>],
                             usedObj, usedArr)[1]]
    ELSE [ok |-> FALSE]

-----------------------------------------------------------------------------
(* App: construction, mount effect, reload *)

Idle == [pc |-> "idle"]

\* PlanHistory is mounted only while the view is history; its selectedIds
\* start empty each time it is mounted
SelectionAfter(v) == IF v = "history" THEN selectedIds ELSE <<>>

\* the second tab before its mount effect has run
OtherTabInit == [booted |-> FALSE, savedPlans |-> <<>>]

\* mutant: the plan is shown with the sections of a failed analysis
InitialPlanFailedAnalysis(g, allocations, now, newArr) ==
    [id |-> IdOf(now),
     name |-> PlanName(g.profile),
     createdAt |-> now,
     userProfile |-> g.profile,
     totalBudget |-> g.budget,
     duration |-> "1 month",
     regions |-> <<"Beijing", "Shanghai">>,
     allocations |-> allocations,
     analysis |-> [f \in DOMAIN PendingAnalysis |-> "ANALYSIS_FAILED"],
     arr |-> newArr]

\* initialPlan of handleGeneratePlan
InitialPlan(g, allocations, now, newArr) ==
    [id |-> IdOf(now),
     name |-> PlanName(g.profile),
     createdAt |-> now,
     userProfile |-> g.profile,
     totalBudget |-> g.budget,
     duration |-> "1 month",
     regions |-> <<"Beijing", "Shanghai">>,
     allocations |-> allocations,
     analysis |-> PendingAnalysis,
     arr |-> newArr]

\* A plan generated and saved by an earlier run of the application (at time 0).
EarlierPlan ==
    LET g == [profile |-> [brandName |-> "Acme", products |-> "soda"], budget |-> 100000]
    IN  [InitialPlan(g, WithRefs(AiAllocations(g.budget), {}), 0, 0)
            EXCEPT !.analysis = CHOOSE a \in AnalysisAnswers : a.roi = "roi"]

\* what localStorage holds when the application starts for the first time in
\* this run: nothing, or the collection an earlier run has saved
InitialStorage == {NoItem, JSONstringify(<<EarlierPlan>>)}

Init ==
    /\ view = "onboarding"
    /\ profile = NullProfile
    /\ plan = NullPlan
    /\ isProcessing = FALSE
    /\ isReadOnly = FALSE
    /\ savedPlans = <<>>
    /\ comparePlans = <<>>
    /\ storage \in InitialStorage
    /\ gen = Idle
    /\ clock = 1
    /\ booted = FALSE
    /\ nEdits = 0
    /\ steps = 0
    /\ hash = NoHash
    /\ savedKind = "list"
    /\ crashed = FALSE
    /\ otherTab = OtherTabInit
    /\ selectedIds = <<>>
    /\ last = [op |-> "construct"]

\* const stored = localStorage.getItem(...); if (stored) setSavedPlans(JSON.parse(stored))
LoadSaved(stored, current, usedObj, usedArr) ==
    IF stored.item = "text" THEN JSONparse(stored, usedObj, usedArr) ELSE current

\* mutant: the read-only flag is set before the token is decoded
AfterShareFlagFirst(shared, cur) ==
    IF shared.ok
    THEN [plan |-> shared.plan, isReadOnly |-> TRUE, view |-> "dashboard", hash |-> NoHash]
    ELSE [cur EXCEPT !.isReadOnly = TRUE]

\* the try block of the share detection: the three setters and replaceState
\* run when the token was decoded, nothing is set in the catch branch
AfterShare(shared, cur) ==
    IF shared.ok
    THEN [plan |-> shared.plan, isReadOnly |-> TRUE, view |-> "dashboard", hash |-> NoHash]
    ELSE cur

\* useEffect(..., []): detection of a shared plan, then load of the saved
\* collection
Mount ==
    /\ Tick
    /\ UNCHANGED otherTab
    /\ ~booted
    /\ booted' = TRUE
    /\ LET shared == DecodeShare(hash, UsedObjRefs, UsedArrRefs)
           usedObj == IF shared.ok THEN UsedObjRefs \cup ObjRefsOf(shared.plan)
                      ELSE UsedObjRefs
           usedArr == IF shared.ok THEN UsedArrRefs \cup {shared.plan.arr}
                      ELSE UsedArrRefs
           after == AfterShare(shared, [plan |-> plan, isReadOnly |-> isReadOnly,
                                        view |-> view, hash |-> hash])
       IN  /\ plan' = after.plan
           /\ isReadOnly' = after.isReadOnly
           /\ view' = after.view
           /\ hash' = after.hash
           /\ savedPlans' = LoadSaved(storage, savedPlans, usedObj, usedArr)
    /\ savedKind' = IF storage.item = "nonlist" THEN "nonlist" ELSE savedKind
    /\ last' = [op |-> "mount", hash |-> hash, stored |-> storage]
    /\ UNCHANGED <<profile, isProcessing, comparePlans, storage, gen, clock, nEdits,
                   crashed>>
    /\ selectedIds' = SelectionAfter(view')

\* The page is loaded again: the component is constructed anew, the pending
\* call of the old page is gone, localStorage stays.
Reload ==
    /\ Tick
    /\ UNCHANGED otherTab
    /\ booted
    /\ storage # NoItem \/ hash # NoHash
    /\ view' = "onboarding"
    /\ profile' = NullProfile
    /\ plan' = NullPlan
    /\ isProcessing' = FALSE
    /\ isReadOnly' = FALSE
    /\ savedPlans' = <<>>
    /\ comparePlans' = <<>>
    /\ gen' = Idle
    /\ booted' = FALSE
    /\ savedKind' = "list"
    /\ crashed' = FALSE
    /\ last' = [op |-> "reload"]
    /\ UNCHANGED <<storage, clock, nEdits, hash>>
    /\ selectedIds' = SelectionAfter(view')

-----------------------------------------------------------------------------
(* App: navigation *)

\* logo: onClick={() => setView('onboarding')}
NavOnboarding ==
    /\ Tick /\ ~crashed
    /\ UNCHANGED otherTab
    /\ UNCHANGED <<hash, savedKind, crashed>>
    /\ booted /\ view # "onboarding"
    /\ view' = "onboarding"
    /\ last' = [op |-> "nav"]
    /\ UNCHANGED <<profile, plan, isProcessing, isReadOnly, savedPlans, comparePlans,
                   storage, gen, clock, booted, nEdits>>
    /\ selectedIds' = SelectionAfter(view')

\* history button; PlanHistory then renders plans.length and plans.map(...),
\* which throws when plans is not an array
NavHistory ==
    /\ Tick /\ ~crashed
    /\ UNCHANGED otherTab
    /\ booted /\ ~isReadOnly /\ view # "history"
    /\ view' = "history"
    /\ crashed' = (savedKind # "list")
    /\ last' = [op |-> "nav"]
    /\ UNCHANGED <<profile, plan, isProcessing, isReadOnly, savedPlans, comparePlans,
                   storage, gen, clock, booted, nEdits, hash, savedKind>>
    /\ selectedIds' = SelectionAfter(view')

NavDashboard ==
    /\ Tick /\ ~crashed
    /\ UNCHANGED otherTab
    /\ UNCHANGED <<hash, savedKind, crashed>>
    /\ booted /\ ~isReadOnly /\ plan # NullPlan /\ view # "dashboard"
    /\ view' = "dashboard"
    /\ last' = [op |-> "nav"]
    /\ UNCHANGED <<profile, plan, isProcessing, isReadOnly, savedPlans, comparePlans,
                   storage, gen, clock, booted, nEdits>>
    /\ selectedIds' = SelectionAfter(view')

NavConfig ==
    /\ Tick /\ ~crashed
    /\ UNCHANGED otherTab
    /\ UNCHANGED <<hash, savedKind, crashed>>
    /\ booted /\ ~isReadOnly /\ view # "config"
    /\ view' = "config"
    /\ last' = [op |-> "nav"]
    /\ UNCHANGED <<profile, plan, isProcessing, isReadOnly, savedPlans, comparePlans,
                   storage, gen, clock, booted, nEdits>>
    /\ selectedIds' = SelectionAfter(view')

handleProfileComplete ==
    /\ Tick /\ ~crashed
    /\ UNCHANGED otherTab
    /\ UNCHANGED <<hash, savedKind, crashed>>
    /\ booted /\ view = "onboarding"
    /\ \E data \in Profiles : profile' = data
    /\ isReadOnly' = FALSE
    /\ view' = "config"
    /\ last' = [op |-> "profileComplete"]
    /\ UNCHANGED <<plan, isProcessing, savedPlans, comparePlans,
                   storage, gen, clock, booted, nEdits>>
    /\ selectedIds' = SelectionAfter(view')

-----------------------------------------------------------------------------
(* App: plan store *)

HasId(plans, id) == \E k \in DOMAIN plans : plans[k].id = id

\* mutant: the plan is prepended whether or not its id is in the collection
SavedAfterSaveAlwaysPrepend(plans, planToSave) == <<planToSave>> \o plans

\* newSaved of handleSavePlan
SavedAfterSave(plans, planToSave) ==
    IF HasId(plans, planToSave.id)
    THEN [k \in DOMAIN plans |-> IF plans[k].id = planToSave.id THEN planToSave ELSE plans[k]]
    ELSE <<planToSave>> \o plans

\* PlanDashboard.handleSave -> App.handleSavePlan(plan)
\* (savedPlans.some throws a TypeError when savedPlans is not an array)
handleSavePlan ==
    /\ Tick /\ ~crashed
    /\ UNCHANGED otherTab
    /\ booted /\ view = "dashboard" /\ plan # NullPlan /\ ~isReadOnly
    /\ IF savedKind = "list"
       THEN /\ HasId(savedPlans, plan.id) \/ Len(savedPlans) < MaxSaved
            /\ savedPlans' = SavedAfterSave(savedPlans, plan)
            /\ storage' = JSONstringify(savedPlans')
            /\ last' = [op |-> "save", pre |-> savedPlans, planToSave |-> plan]
       ELSE /\ last' = [op |-> "saveThrew"]
            /\ UNCHANGED <<savedPlans, storage>>
    /\ UNCHANGED <<view, profile, plan, isProcessing, isReadOnly, comparePlans,
                   gen, clock, booted, nEdits, hash, savedKind, crashed>>
    /\ selectedIds' = SelectionAfter(view')

\* mutant: the entry at the head is dropped, whatever its id
SavedAfterDeleteHead(plans, id) == Tail(plans)

\* savedPlans.filter(p => p.id !== id)
SavedAfterDelete(plans, id) == SelectSeq(plans, LAMBDA p : p.id # id)

\* PlanHistory delete button -> App.handleDeletePlan(plan.id)
handleDeletePlan ==
    /\ Tick /\ ~crashed
    /\ UNCHANGED otherTab
    /\ UNCHANGED <<hash, savedKind, crashed>>
    /\ booted /\ view = "history"
    /\ \E k \in DOMAIN savedPlans :
         LET id == savedPlans[k].id
             openDeleted == plan # NullPlan /\ plan.id = id
         IN  /\ savedPlans' = SavedAfterDelete(savedPlans, id)
             /\ storage' = JSONstringify(savedPlans')
             /\ plan' = IF openDeleted THEN NullPlan ELSE plan
             /\ view' = IF openDeleted THEN "history" ELSE view
             /\ last' = [op |-> "delete", id |-> id, pre |-> savedPlans,
                         prePlan |-> plan, preView |-> view]
    /\ UNCHANGED <<profile, isProcessing, isReadOnly, comparePlans, gen, clock, booted,
                   nEdits>>
    /\ selectedIds' = SelectionAfter(view')

\* PlanHistory view button -> App.handleViewPlan(plan)
handleViewPlan ==
    /\ Tick /\ ~crashed
    /\ UNCHANGED otherTab
    /\ UNCHANGED <<hash, savedKind, crashed>>
    /\ booted /\ view = "history"
    /\ \E k \in DOMAIN savedPlans :
         /\ plan' = savedPlans[k]
         /\ profile' = savedPlans[k].userProfile
    /\ isReadOnly' = FALSE
    /\ view' = "dashboard"
    /\ last' = [op |-> "view"]
    /\ UNCHANGED <<isProcessing, savedPlans, comparePlans, storage, gen, clock, booted,
                   nEdits>>
    /\ selectedIds' = SelectionAfter(view')

\* PlanDashboard reset button -> App.handleResetPlan
handleResetPlan ==
    /\ Tick /\ ~crashed
    /\ UNCHANGED otherTab
    /\ UNCHANGED <<hash, savedKind, crashed>>
    /\ booted /\ view = "dashboard" /\ plan # NullPlan /\ ~isReadOnly
    /\ plan' = NullPlan
    /\ isReadOnly' = FALSE
    /\ view' = "config"
    /\ last' = [op |-> "reset"]
    /\ UNCHANGED <<profile, isProcessing, savedPlans, comparePlans, storage, gen, clock,
                   booted, nEdits>>
    /\ selectedIds' = SelectionAfter(view')

-----------------------------------------------------------------------------
(* App: generation pipeline (handleGeneratePlan) *)

\* PlanGenerator submit button (disabled while isGenerating) -> handleGeneratePlan,
\* up to the first await
GenerateStart ==
    /\ Tick /\ ~crashed
    /\ UNCHANGED otherTab
    /\ UNCHANGED <<hash, savedKind, crashed>>
    /\ booted /\ view = "config" /\ ~isProcessing
    /\ clock < MaxClock
    /\ IF profile = NullProfile
       THEN /\ last' = [op |-> "generateNoProfile"]
            /\ UNCHANGED <<isProcessing, isReadOnly, gen>>
       ELSE /\ isProcessing' = TRUE
            /\ isReadOnly' = FALSE
            /\ \E budget \in GenBudgets, selectedTypes \in SelectedTypeChoices :
                 gen' = [pc |-> "allocations", profile |-> profile, budget |-> budget,
                         selectedTypes |-> selectedTypes]
            /\ last' = [op |-> "generateStart"]
    /\ UNCHANGED <<view, profile, plan, savedPlans, comparePlans, storage, clock,
                   booted, nEdits>>
    /\ selectedIds' = SelectionAfter(view')

\* mutant: a plan opened while the call was pending is kept
AllocationsResolveKeepOpen ==
    /\ Tick /\ ~crashed
    /\ UNCHANGED otherTab
    /\ UNCHANGED <<hash, savedKind, crashed>>
    /\ gen.pc = "allocations"
    /\ \E answer \in {AiAllocations(gen.budget),
                      FallbackAllocations(gen.budget, gen.selectedTypes)} :
         /\ plan' = IF plan # NullPlan THEN plan
                    ELSE InitialPlan(gen, WithRefs(answer, UsedObjRefs), clock,
                                     NthFree(UsedArrRefs, 1))
         /\ last' = [op |-> "allocationsResolve", prePlan |-> plan, preView |-> view,
                     answer |-> answer]
    /\ view' = "dashboard"
    /\ gen' = [pc |-> "analysis", newPlanId |-> IdOf(clock)]
    /\ clock' = clock + 1
    /\ UNCHANGED <<profile, isProcessing, isReadOnly, savedPlans, comparePlans,
                   storage, booted, nEdits>>
    /\ selectedIds' = SelectionAfter(view')

\* generatePlanAllocations resolves (with the service's answer or with the
\* fallback); handleGeneratePlan runs up to the second await
AllocationsResolve ==
    /\ Tick /\ ~crashed
    /\ UNCHANGED otherTab
    /\ UNCHANGED <<hash, savedKind, crashed>>
    /\ gen.pc = "allocations"
    /\ \E answer \in {AiAllocations(gen.budget),
                      FallbackAllocations(gen.budget, gen.selectedTypes)} :
         /\ plan' = InitialPlan(gen, WithRefs(answer, UsedObjRefs), clock,
                                NthFree(UsedArrRefs, 1))
         /\ last' = [op |-> "allocationsResolve", prePlan |-> plan, preView |-> view,
                     answer |-> answer]
    /\ view' = "dashboard"
    /\ gen' = [pc |-> "analysis", newPlanId |-> IdOf(clock)]
    /\ clock' = clock + 1
    /\ UNCHANGED <<profile, isProcessing, isReadOnly, savedPlans, comparePlans,
                   storage, booted, nEdits>>
    /\ selectedIds' = SelectionAfter(view')

\* mutant: the catch branch without the finally
AllocationsRejectNoFinally ==
    /\ Tick /\ ~crashed
    /\ UNCHANGED otherTab
    /\ UNCHANGED <<hash, savedKind, crashed>>
    /\ gen.pc = "allocations"
    /\ isProcessing' = isProcessing
    /\ gen' = Idle
    /\ last' = [op |-> "allocationsReject"]
    /\ UNCHANGED <<view, profile, plan, isReadOnly, savedPlans, comparePlans,
                   storage, clock, booted, nEdits>>
    /\ selectedIds' = SelectionAfter(view')

\* generatePlanAllocations rejects (the client cannot be constructed):
\* catch and finally of handleGeneratePlan
AllocationsReject ==
    /\ Tick /\ ~crashed
    /\ UNCHANGED otherTab
    /\ UNCHANGED <<hash, savedKind, crashed>>
    /\ gen.pc = "allocations"
    /\ isProcessing' = FALSE
    /\ gen' = Idle
    /\ last' = [op |-> "allocationsReject"]
    /\ UNCHANGED <<view, profile, plan, isReadOnly, savedPlans, comparePlans,
                   storage, clock, booted, nEdits>>
    /\ selectedIds' = SelectionAfter(view')

\* mutant: the patch is applied to whatever plan is open
PatchAnalysisUnguarded(prev, newPlanId, analysis) ==
    IF prev # NullPlan THEN [prev EXCEPT !.analysis = analysis] ELSE prev

\* setPlan(prev => prev && prev.id === newPlanId ? { ...prev, analysis } : prev)
PatchAnalysis(prev, newPlanId, analysis) ==
    IF prev # NullPlan /\ prev.id = newPlanId
    THEN [prev EXCEPT !.analysis = analysis]
    ELSE prev

\* mutant: the entry of the saved collection is patched too
AnalysisResolveWithSaved(outcomes) ==
    /\ Tick /\ ~crashed
    /\ UNCHANGED otherTab
    /\ UNCHANGED <<hash, savedKind, crashed>>
    /\ gen.pc = "analysis"
    /\ \E o \in outcomes :
         LET analysis == performAnalysis(o[1], o[2])
         IN  /\ plan' = PatchAnalysis(plan, gen.newPlanId, analysis)
             /\ savedPlans' = [k \in DOMAIN savedPlans |->
                                  PatchAnalysis(savedPlans[k], gen.newPlanId, analysis)]
             /\ last' = [op |-> "analysisResolve", newPlanId |-> gen.newPlanId,
                         prePlan |-> plan, analysis |-> analysis,
                         searchThrew |-> o[1].threw, requestThrew |-> o[2].threw]
    /\ isProcessing' = FALSE
    /\ gen' = Idle
    /\ UNCHANGED <<view, profile, isReadOnly, comparePlans,
                   storage, clock, booted, nEdits>>
    /\ selectedIds' = SelectionAfter(view')

\* performAnalysis resolves; patch, then finally
AnalysisResolveWith(outcomes) ==
    /\ Tick /\ ~crashed
    /\ UNCHANGED otherTab
    /\ UNCHANGED <<hash, savedKind, crashed>>
    /\ gen.pc = "analysis"
    /\ \E o \in outcomes :
         LET analysis == performAnalysis(o[1], o[2])
         IN  /\ plan' = PatchAnalysis(plan, gen.newPlanId, analysis)
             /\ last' = [op |-> "analysisResolve", newPlanId |-> gen.newPlanId,
                         prePlan |-> plan, analysis |-> analysis,
                         searchThrew |-> o[1].threw, requestThrew |-> o[2].threw]
    /\ isProcessing' = FALSE
    /\ gen' = Idle
    /\ UNCHANGED <<view, profile, isReadOnly, savedPlans, comparePlans,
                   storage, clock, booted, nEdits>>
    /\ selectedIds' = SelectionAfter(view')

AnalysisResolve == AnalysisResolveWith(AnalysisOutcomes)

\* performAnalysis rejects: catch and finally
AnalysisReject ==
    /\ Tick /\ ~crashed
    /\ UNCHANGED otherTab
    /\ UNCHANGED <<hash, savedKind, crashed>>
    /\ gen.pc = "analysis"
    /\ isProcessing' = FALSE
    /\ gen' = Idle
    /\ last' = [op |-> "analysisReject"]
    /\ UNCHANGED <<view, profile, plan, isReadOnly, savedPlans, comparePlans,
                   storage, clock, booted, nEdits>>
    /\ selectedIds' = SelectionAfter(view')

-----------------------------------------------------------------------------
(* Dashboard: allocation edits *)

InputsOf(field) ==
    IF field \in {"percentage", "budget"} THEN NumberInputs ELSE TextInputs

\* the total an edit is about to store (the bound BudgetCap is applied to it)
TotalAfter(p, index, field, value) ==
    IF field = "percentage"
    THEN OtherBudget(p.allocations, index) + PercentageToBudget(p, index, value)
    ELSE IF field = "budget"
    THEN OtherBudget(p.allocations, index) + ClampBudget(value)
    ELSE p.totalBudget

\* onChange of an input of the allocation list -> handleAllocationChange ->
\* onUpdatePlan -> setPlan
EditWith(index, field, value) ==
    /\ Tick /\ ~crashed
    /\ UNCHANGED otherTab
    /\ UNCHANGED <<hash, savedKind, crashed>>
    /\ TotalAfter(plan, index, field, value) <= BudgetCap
    /\ LET new == handleAllocationChange(plan, index, field, value,
                                         NthFree(UsedObjRefs, 1), NthFree(UsedArrRefs, 1))
           writes == WrittenPercentages(plan, new, index)
       IN  /\ plan' = new
           /\ savedPlans' = ApplyWritesAll(savedPlans, writes)
           /\ comparePlans' = ApplyWritesAll(comparePlans, writes)
    /\ nEdits' = nEdits + 1
    /\ last' = [op |-> "edit", pre |-> plan, index |-> index, field |-> field,
                value |-> value, preSaved |-> savedPlans]
    /\ UNCHANGED <<view, profile, isProcessing, isReadOnly, storage, gen, clock, booted>>
    /\ selectedIds' = SelectionAfter(view')

EditAllocation ==
    /\ booted /\ view = "dashboard" /\ plan # NullPlan /\ ~isReadOnly
    /\ nEdits < MaxEdits
    /\ \E index \in DOMAIN plan.allocations, field \in EditFields :
         \E value \in InputsOf(field) : EditWith(index, field, value)

-----------------------------------------------------------------------------

Next ==
    \/ Mount
    \/ Reload
    \/ NavOnboarding
    \/ NavHistory
    \/ NavDashboard
    \/ NavConfig
    \/ handleProfileComplete
    \/ handleSavePlan
    \/ handleDeletePlan
    \/ handleViewPlan
    \/ handleResetPlan
    \/ GenerateStart
    \/ AllocationsResolve
    \/ AllocationsReject
    \/ AnalysisResolve
    \/ AnalysisReject
    \/ EditAllocation

Spec == Init /\ [][Next]_vars

-----------------------------------------------------------------------------
(* Startup and sharing: the application started on any persisted value and  *)
(* any fragment, used without the generation pipeline                       *)

\* PlanDashboard.handleShare: the link, or the alert of the catch branch
handleShare ==
    /\ Tick /\ ~crashed
    /\ UNCHANGED otherTab
    /\ booted /\ view = "dashboard" /\ plan # NullPlan
    /\ last' = [op |-> "share", plan |-> plan, url |-> btoa(PlanText(plan))]
    /\ UNCHANGED <<view, profile, plan, isProcessing, isReadOnly, savedPlans, comparePlans,
                   storage, gen, clock, booted, nEdits, hash, savedKind, crashed>>
    /\ selectedIds' = SelectionAfter(view')

\* The link handleShare has just made is opened: the page is loaded with the
\* token in the fragment.
OpenShareLink ==
    /\ Tick
    /\ UNCHANGED otherTab
    /\ last.op = "share" /\ ~last.url.threw
    /\ hash' = ShareHash(last.url)
    /\ view' = "onboarding"
    /\ profile' = NullProfile
    /\ plan' = NullPlan
    /\ isProcessing' = FALSE
    /\ isReadOnly' = FALSE
    /\ savedPlans' = <<>>
    /\ comparePlans' = <<>>
    /\ gen' = Idle
    /\ booted' = FALSE
    /\ savedKind' = "list"
    /\ crashed' = FALSE
    /\ last' = [op |-> "openLink"]
    /\ UNCHANGED <<storage, clock, nEdits>>
    /\ selectedIds' = SelectionAfter(view')

\* the button shown in place of the navigation while isReadOnly:
\* onClick={() => { setIsReadOnly(false); setView('onboarding'); setPlan(null); }}
ExitReadOnly ==
    /\ Tick /\ ~crashed
    /\ UNCHANGED otherTab
    /\ booted /\ isReadOnly
    /\ isReadOnly' = FALSE
    /\ view' = "onboarding"
    /\ plan' = NullPlan
    /\ last' = [op |-> "exitReadOnly"]
    /\ UNCHANGED <<profile, isProcessing, savedPlans, comparePlans, storage, gen, clock,
                   booted, nEdits, hash, savedKind, crashed>>
    /\ selectedIds' = SelectionAfter(view')

\* A plan whose texts are all within U+0000..U+00FF, as a link made by hand or
\* by another encoder can carry.
SharedPlan ==
    [EarlierPlan EXCEPT !.id = <<"id", -1>>, !.name = <<"Acme", "plan">>,
                        !.createdAt = -1]

\* what localStorage can hold at startup: nothing, text that is not JSON, JSON
\* that is not an array, the collection an earlier run has saved
LoadStorages ==
    {NoItem, [item |-> "malformed"], [item |-> "nonlist"], JSONstringify(<<EarlierPlan>>)}

\* the fragment at startup: none, '#share=' followed by characters that are
\* not base64, by the base64 of text that is not JSON, by the token of a plan
LoadHashes ==
    {NoHash,
     ShareHash([b64 |-> FALSE]),
     ShareHash([b64 |-> TRUE, text |-> [item |-> "malformed"]]),
     ShareHash(btoa(PlanText(SharedPlan)))}

InitLoad ==
    /\ view = "onboarding"
    /\ profile = NullProfile
    /\ plan = NullPlan
    /\ isProcessing = FALSE
    /\ isReadOnly = FALSE
    /\ savedPlans = <<>>
    /\ comparePlans = <<>>
    /\ storage \in LoadStorages
    /\ gen = Idle
    /\ clock = 1
    /\ booted = FALSE
    /\ nEdits = 0
    /\ steps = 0
    /\ hash \in LoadHashes
    /\ savedKind = "list"
    /\ crashed = FALSE
    /\ otherTab = OtherTabInit
    /\ selectedIds = <<>>
    /\ last = [op |-> "construct"]

NextLoad ==
    \/ Mount
    \/ Reload
    \/ NavOnboarding
    \/ NavHistory
    \/ NavDashboard
    \/ NavConfig
    \/ handleProfileComplete
    \/ handleSavePlan
    \/ handleDeletePlan
    \/ handleViewPlan
    \/ handleResetPlan
    \/ EditAllocation
    \/ handleShare
    \/ OpenShareLink
    \/ ExitReadOnly

SpecLoad == InitLoad /\ [][NextLoad]_vars

-----------------------------------------------------------------------------
(* History and comparison: PlanHistory's selection, App.handleCompareStart and
   the render of PlanComparison *)

\* Array.prototype.sort((a, b) => b.percentage - a.percentage): stable,
\* descending by percentage
RECURSIVE InsertByPercentage(_, _)
InsertByPercentage(sorted, item) ==
    IF sorted = <<>> THEN <<item>>
    ELSE IF Head(sorted).percentage >= item.percentage
    THEN <<Head(sorted)>> \o InsertByPercentage(Tail(sorted), item)
    ELSE <<item>> \o sorted

RECURSIVE SortFirst(_, _)
SortFirst(allocations, n) ==
    IF n = 0 THEN <<>>
    ELSE InsertByPercentage(SortFirst(allocations, n - 1), allocations[n])

sortByPercentage(allocations) == SortFirst(allocations, Len(allocations))

\* planA.allocations.sort(...) sorts the array itself: every plan that holds
\* one of these arrays sees the new order
SortedInPlace(p, arrs) ==
    IF p # NullPlan /\ p.arr \in arrs
    THEN [p EXCEPT !.allocations = sortByPercentage(@)]
    ELSE p

SortedInPlaceAll(plans, arrs) == [k \in DOMAIN plans |-> SortedInPlace(plans[k], arrs)]

\* checkbox of a card of PlanHistory
toggleSelection ==
    /\ Tick /\ ~crashed
    /\ booted /\ view = "history" /\ savedKind = "list"
    /\ \E k \in DOMAIN savedPlans :
         LET id == savedPlans[k].id
         IN  /\ selectedIds' =
                    IF id \in Range(selectedIds)
                    THEN SelectSeq(selectedIds, LAMBDA pid : pid # id)
                    ELSE IF Len(selectedIds) < 2 THEN Append(selectedIds, id)
                    ELSE selectedIds
             /\ last' = [op |-> "toggle", id |-> id, pre |-> selectedIds]
    /\ UNCHANGED <<view, profile, plan, isProcessing, isReadOnly, savedPlans, comparePlans,
                   storage, gen, clock, booted, nEdits, hash, savedKind, crashed, otherTab>>

\* compare button of PlanHistory (disabled unless two ids are selected) ->
\* handleCompare -> App.handleCompareStart -> render of PlanComparison
handleCompare ==
    /\ Tick /\ ~crashed
    /\ booted /\ view = "history" /\ savedKind = "list"
    /\ Len(selectedIds) = 2
    /\ LET selectedPlans == SelectSeq(savedPlans, LAMBDA p : p.id \in Range(selectedIds))
           arrs == {selectedPlans[k].arr : k \in DOMAIN selectedPlans}
       IN  IF Len(selectedPlans) = 2
           THEN /\ comparePlans' = SortedInPlaceAll(selectedPlans, arrs)
                /\ savedPlans' = SortedInPlaceAll(savedPlans, arrs)
                /\ plan' = SortedInPlace(plan, arrs)
                /\ view' = "compare"
                /\ last' = [op |-> "compare", opened |-> TRUE, selected |-> selectedIds,
                            preSaved |-> savedPlans, prePlan |-> plan]
           ELSE /\ last' = [op |-> "compare", opened |-> FALSE, selected |-> selectedIds,
                            preSaved |-> savedPlans, prePlan |-> plan]
                /\ UNCHANGED <<comparePlans, savedPlans, plan, view>>
    /\ UNCHANGED <<profile, isProcessing, isReadOnly, storage, gen, clock, booted, nEdits,
                   hash, savedKind, crashed, otherTab>>
    /\ selectedIds' = SelectionAfter(view')

\* PlanComparison: onBack={() => setView('history')}
CompareBack ==
    /\ Tick /\ ~crashed
    /\ booted /\ view = "compare"
    /\ view' = "history"
    /\ last' = [op |-> "nav"]
    /\ UNCHANGED <<profile, plan, isProcessing, isReadOnly, savedPlans, comparePlans,
                   storage, gen, clock, booted, nEdits, hash, savedKind, crashed, otherTab>>
    /\ selectedIds' = <<>>

\* a plan saved before EarlierPlan, its allocations in ascending order of
\* percentage
OlderPlan ==
    [EarlierPlan EXCEPT !.id = <<"id", -3>>, !.createdAt = -3,
                        !.allocations = <<EarlierPlan.allocations[2],
                                          EarlierPlan.allocations[1]>>]

InitHistory ==
    /\ view = "onboarding"
    /\ profile = NullProfile
    /\ plan = NullPlan
    /\ isProcessing = FALSE
    /\ isReadOnly = FALSE
    /\ savedPlans = <<>>
    /\ comparePlans = <<>>
    /\ storage \in {JSONstringify(<<EarlierPlan, OlderPlan>>), JSONstringify(<<EarlierPlan>>)}
    /\ gen = Idle
    /\ clock = 1
    /\ booted = FALSE
    /\ nEdits = 0
    /\ steps = 0
    /\ hash = NoHash
    /\ savedKind = "list"
    /\ crashed = FALSE
    /\ otherTab = OtherTabInit
    /\ selectedIds = <<>>
    /\ last = [op |-> "construct"]

NextHistory ==
    \/ Mount
    \/ NavHistory
    \/ NavDashboard
    \/ toggleSelection
    \/ handleCompare
    \/ CompareBack
    \/ handleDeletePlan
    \/ handleViewPlan
    \/ handleSavePlan
    \/ EditAllocation

SpecHistory == InitHistory /\ [][NextHistory]_vars

-----------------------------------------------------------------------------
(* CSV export.  Here the texts of an allocation are sequences of characters;
   "n" stands for the digits of a number, "s" and "h" for the characters of
   the default specification and of a header label. *)

CsvChars == {"a", ",", "\"", "\n"}

RECURSIVE TextsUpTo(_)
TextsUpTo(n) ==
    IF n = 0 THEN {<<>>}
    ELSE LET shorter == TextsUpTo(n - 1)
         IN  shorter \cup {Append(t, c) : t \in shorter, c \in CsvChars}

\* str.replace(/"/g, '""')
RECURSIVE doubleQuotes(_)
doubleQuotes(str) ==
    IF str = <<>> THEN <<>>
    ELSE (IF Head(str) = "\"" THEN <<"\"", "\"">> ELSE <<Head(str)>>)
         \o doubleQuotes(Tail(str))

\* str.replace(/\n/g, ' ')
RECURSIVE newlinesToSpaces(_)
newlinesToSpaces(str) ==
    IF str = <<>> THEN <<>>
    ELSE <<IF Head(str) = "\n" THEN " " ELSE Head(str)>> \o newlinesToSpaces(Tail(str))

\* `"${str}"`
inQuotes(str) == <<"\"">> \o str \o <<"\"">>

\* item.specifications || (the default text)
specificationsOrDefault(item) ==
    IF "specifications" \in DOMAIN item /\ item.specifications # <<>>
    THEN item.specifications
    ELSE <<"s">>

\* Array.prototype.join
RECURSIVE join(_, _)
join(parts, sep) ==
    IF parts = <<>> THEN <<>>
    ELSE IF Len(parts) = 1 THEN parts[1]
    ELSE parts[1] \o sep \o join(Tail(parts), sep)

\* one element of rows
csvRow(item) ==
    << inQuotes(doubleQuotes(item.name)),
       inQuotes(item.type),
       inQuotes(doubleQuotes(specificationsOrDefault(item))),
       <<"n", "%">>,
       <<"n">>,
       inQuotes(newlinesToSpaces(doubleQuotes(item.reasoning))) >>

csvHeaders == [i \in 1..6 |-> <<"h">>]

\* rows.map(r => r.join(','))
csvLines(p) == [i \in DOMAIN p.allocations |-> join(csvRow(p.allocations[i]), <<",">>)]

\* csvContent
csvContent(p) == join(<<join(csvHeaders, <<",">>)>> \o csvLines(p), <<"\n">>)

\* export button of the dashboard -> handleExportCSV: the text of the download
handleExportCSV ==
    /\ Tick /\ ~crashed
    /\ booted /\ view = "dashboard" /\ plan # NullPlan
    /\ last' = [op |-> "exportCSV", csv |-> csvContent(plan), lines |-> csvLines(plan)]
    /\ UNCHANGED <<view, profile, plan, isProcessing, isReadOnly, savedPlans, comparePlans,
                   storage, gen, clock, booted, nEdits, hash, savedKind, crashed, otherTab>>
    /\ selectedIds' = SelectionAfter(view')

\* the fields of an allocation the export writes as text
CsvTextFields == {"name", "type", "specifications", "reasoning"}

\* a plan of two allocations, the first with one text of any characters
CsvPlan(field, text) ==
    LET plain == [type |-> <<"a">>, name |-> <<"a">>, percentage |-> 50 * Scale,
                  budget |-> 5000 * Scale, reasoning |-> <<"a">>,
                  specifications |-> <<"a">>]
    IN  [EarlierPlan EXCEPT
            !.allocations = << [g \in DOMAIN plain \cup {"ref"} |->
                                   IF g = "ref" THEN 0
                                   ELSE IF g = field THEN text ELSE plain[g]],
                               [g \in (DOMAIN plain \ {"specifications"}) \cup {"ref"} |->
                                   IF g = "ref" THEN 1 ELSE plain[g]] >>]

InitCsv ==
    /\ view = "dashboard"
    /\ \E field \in CsvTextFields, text \in TextsUpTo(MaxText) : plan = CsvPlan(field, text)
    /\ profile = plan.userProfile
    /\ isProcessing = FALSE
    /\ isReadOnly = FALSE
    /\ savedPlans = <<>>
    /\ comparePlans = <<>>
    /\ storage = NoItem
    /\ gen = Idle
    /\ clock = 1
    /\ booted = TRUE
    /\ nEdits = 0
    /\ steps = 0
    /\ hash = NoHash
    /\ savedKind = "list"
    /\ crashed = FALSE
    /\ otherTab = OtherTabInit
    /\ selectedIds = <<>>
    /\ last = [op |-> "probe"]

ProbeExport == last.op = "probe" /\ handleExportCSV

NextCsv == ProbeExport

SpecCsv == InitCsv /\ [][NextCsv]_vars

-----------------------------------------------------------------------------
(* Two tabs on one localStorage.  The second tab runs the same mount effect,
   handleSavePlan and handleDeletePlan on its own savedPlans; the plan it
   saves is one it made itself or one of its collection. *)

\* a plan made in the second tab
OtherTabPlan == [EarlierPlan EXCEPT !.id = <<"id", -2>>, !.name = <<"Bolt", "PLAN_SUFFIX">>]

\* mutant: the handler reads the collection back from localStorage
savedPlansFromStorage(inMemory, stored) == LoadSaved(stored, inMemory, {}, {})

\* the savedPlans a handler works on: the state of its own tab
savedPlansOfTab(inMemory, stored) == inMemory

OtherTabMount ==
    /\ Tick
    /\ ~otherTab.booted
    /\ storage.item \in {"absent", "text"}
    /\ otherTab' = [booted |-> TRUE, savedPlans |-> LoadSaved(storage, <<>>, {}, {})]
    /\ last' = [op |-> "otherMount", stored |-> storage]
    /\ UNCHANGED <<view, profile, plan, isProcessing, isReadOnly, savedPlans, comparePlans,
                   storage, gen, clock, booted, nEdits, hash, savedKind, crashed>>
    /\ selectedIds' = SelectionAfter(view')

OtherTabSave ==
    /\ Tick
    /\ otherTab.booted
    /\ \E planToSave \in {OtherTabPlan} \cup Range(otherTab.savedPlans) :
         LET newSaved == SavedAfterSave(savedPlansOfTab(otherTab.savedPlans, storage),
                                        planToSave)
         IN  /\ Len(newSaved) <= MaxSaved
             /\ otherTab' = [otherTab EXCEPT !.savedPlans = newSaved]
             /\ storage' = JSONstringify(newSaved)
             /\ last' = [op |-> "otherSave", pre |-> otherTab.savedPlans,
                         id |-> planToSave.id, stored |-> storage]
    /\ UNCHANGED <<view, profile, plan, isProcessing, isReadOnly, savedPlans, comparePlans,
                   gen, clock, booted, nEdits, hash, savedKind, crashed>>
    /\ selectedIds' = SelectionAfter(view')

OtherTabDelete ==
    /\ Tick
    /\ otherTab.booted
    /\ \E k \in DOMAIN otherTab.savedPlans :
         LET id == otherTab.savedPlans[k].id
             newSaved == SavedAfterDelete(savedPlansOfTab(otherTab.savedPlans, storage), id)
         IN  /\ otherTab' = [otherTab EXCEPT !.savedPlans = newSaved]
             /\ storage' = JSONstringify(newSaved)
             /\ last' = [op |-> "otherDelete", pre |-> otherTab.savedPlans,
                         id |-> id, stored |-> storage]
    /\ UNCHANGED <<view, profile, plan, isProcessing, isReadOnly, savedPlans, comparePlans,
                   gen, clock, booted, nEdits, hash, savedKind, crashed>>
    /\ selectedIds' = SelectionAfter(view')

NextTabs ==
    \/ Mount
    \/ NavHistory
    \/ handleProfileComplete
    \/ GenerateStart
    \/ AllocationsResolve
    \/ AnalysisResolve
    \/ handleSavePlan
    \/ handleDeletePlan
    \/ handleViewPlan
    \/ OtherTabMount
    \/ OtherTabSave
    \/ OtherTabDelete

SpecTabs == Init /\ [][NextTabs]_vars

-----------------------------------------------------------------------------
(* The allocation editor on its own: one edit applied to a drawn plan *)

ProbeBudgets == {0, 5, 10, 33000, 200000, 300000}
ProbePercentages == {330, 400, 600}
ProbeTotals == {0, 100000, 500000}
ProbeInputs ==
    {RawEmpty} \cup
    {RawNum(n) : n \in {-50, 0, 1, 5, 300, 333, 500, 700, 998, 999, 1000, 1500, 200000}}

ProbeAllocs ==
    {[type |-> "UnitDoor", name |-> "Lightbox", percentage |-> pc, budget |-> b,
      reasoning |-> "reach"] : pc \in ProbePercentages, b \in ProbeBudgets}

\* The plans of n allocations the dashboard can hold under a total: the answer
\* of the allocation service is stored as it comes, whatever its budgets and
\* percentages, under the total of the configuration form; a total of 0 is the
\* sum of budgets edited to 0.
ProbePlans(n, total) ==
    LET g == [profile |-> [brandName |-> "Acme", products |-> "soda"],
              budget |-> total]
        lists == {a \in [1..n -> ProbeAllocs] :
                     total = 0 => \A i \in 1..n : a[i].budget = 0}
    IN  {InitialPlan(g, WithRefs(allocs, {}), 0, 0) : allocs \in lists}

InitEdit ==
    /\ view = "dashboard"
    /\ \E n \in 1..MaxAllocs, total \in ProbeTotals : plan \in ProbePlans(n, total)
    /\ profile = plan.userProfile
    /\ isProcessing = FALSE
    /\ isReadOnly = FALSE
    /\ savedPlans = <<>>
    /\ comparePlans = <<>>
    /\ storage = NoItem
    /\ gen = Idle
    /\ clock = 1
    /\ booted = TRUE
    /\ nEdits = 0
    /\ steps = 0
    /\ hash = NoHash
    /\ savedKind = "list"
    /\ crashed = FALSE
    /\ otherTab = OtherTabInit
    /\ selectedIds = <<>>
    /\ last = [op |-> "probe"]

ProbeEdit ==
    /\ last.op = "probe"
    /\ \E index \in DOMAIN plan.allocations, field \in {"percentage", "budget"} :
         \E value \in ProbeInputs : EditWith(index, field, value)

\* the fields of MediaAllocation that hold text, and texts typed into them
TextFields == {"type", "name", "reasoning", "specifications", "location"}
ProbeTexts == {"edited", ""}

ProbeTextEdit ==
    /\ last.op = "probe"
    /\ \E index \in DOMAIN plan.allocations, field \in TextFields :
         \E value \in ProbeTexts : EditWith(index, field, value)

NextEdit == ProbeEdit \/ ProbeTextEdit

SpecEdit == InitEdit /\ [][NextEdit]_vars

-----------------------------------------------------------------------------
(* The analysis patch on its own: performAnalysis resolves once, with any
   outcome of its two requests, for a drawn plan shown with the placeholders *)

InitAnalysis ==
    /\ view = "dashboard"
    /\ \E n \in 1..MaxAllocs, total \in ProbeTotals : plan \in ProbePlans(n, total)
    /\ profile = plan.userProfile
    /\ isProcessing = TRUE
    /\ isReadOnly = FALSE
    /\ savedPlans = <<>>
    /\ comparePlans = <<>>
    /\ storage = NoItem
    /\ gen = [pc |-> "analysis", newPlanId |-> plan.id]
    /\ clock = 1
    /\ booted = TRUE
    /\ nEdits = 0
    /\ steps = 0
    /\ hash = NoHash
    /\ savedKind = "list"
    /\ crashed = FALSE
    /\ otherTab = OtherTabInit
    /\ selectedIds = <<>>
    /\ last = [op |-> "probe"]

ProbeAnalysis == AnalysisResolveWith(SearchOutcomes \X RequestOutcomes)

NextAnalysis == ProbeAnalysis

SpecAnalysis == InitAnalysis /\ [][NextAnalysis]_vars

-----------------------------------------------------------------------------
(* Properties of the allocation editor *)

\* what the properties read off the last edit
NumericEdit == last.op = "edit" /\ last.field \in {"percentage", "budget"}
PercentageEdit == last.op = "edit" /\ last.field = "percentage"
BudgetEdit == last.op = "edit" /\ last.field = "budget"

\* the sum of the budgets, taken from the end of the list
RECURSIVE BudgetsUpTo(_, _)
BudgetsUpTo(allocs, n) ==
    IF n = 0 THEN 0 ELSE BudgetsUpTo(allocs, n - 1) + allocs[n].budget

RECURSIVE PercentagesUpTo(_, _)
PercentagesUpTo(allocs, n) ==
    IF n = 0 THEN 0 ELSE PercentagesUpTo(allocs, n - 1) + allocs[n].percentage

\* the budgets of all allocations but the one at index
OthersOf(allocs, index) ==
    BudgetsUpTo(allocs, Len(allocs)) - allocs[index].budget

Abs(x) == IF x < 0 THEN -x ELSE x

\* r is num/den rounded to the nearest integer, halves up (den > 0)
IsRounded(r, num, den) == 2 * r * den <= 2 * num + den /\ 2 * num + den < 2 * (r + 1) * den

\* the requested value, limited to [0, 100]
Requested == Min(100 * Scale, Max(0, ToNumber(last.value)))

\* C1: after an edit of a budget or a percentage, the plan's totalBudget is
\* exactly the sum of the budgets of its allocations.
C1_TotalIsSumOfBudgets ==
    NumericEdit => plan.totalBudget = BudgetsUpTo(plan.allocations, Len(plan.allocations))

\* an edit that made an inconsistent total consistent
C1_Witness ==
    /\ NumericEdit
    /\ last.pre.totalBudget # BudgetsUpTo(last.pre.allocations, Len(last.pre.allocations))
    /\ plan.totalBudget # last.pre.totalBudget
    /\ plan.totalBudget > 0
    /\ Len(plan.allocations) >= 2

\* C2 as stated: after a percentage edit with a requested value in [0, 100)
\* the percentages sum to 100 within 0.1 per allocation.
C2_PercentagesSumTo100 ==
    (PercentageEdit /\ ToNumber(last.value) >= 0 /\ ToNumber(last.value) < 100 * Scale)
        => Abs(PercentagesUpTo(plan.allocations, Len(plan.allocations)) - 100 * Scale)
               <= Len(plan.allocations)

\* C2 amended: the same, provided the new totalBudget is greater than 0 (when
\* it is 0 no percentage is recomputed).
C2_PercentagesSumTo100WhenTotalPositive ==
    (PercentageEdit /\ ToNumber(last.value) >= 0 /\ ToNumber(last.value) < 100 * Scale
         /\ plan.totalBudget > 0)
        => Abs(PercentagesUpTo(plan.allocations, Len(plan.allocations)) - 100 * Scale)
               <= Len(plan.allocations)

\* a percentage edit that brought a sum of percentages that was off back to 100
C2_Witness ==
    /\ PercentageEdit /\ ToNumber(last.value) > 0 /\ ToNumber(last.value) < 100 * Scale
    /\ plan.totalBudget > 0
    /\ Len(plan.allocations) >= 2
    /\ Abs(PercentagesUpTo(last.pre.allocations, Len(last.pre.allocations)) - 100 * Scale)
           > Len(plan.allocations)
    /\ \A i \in DOMAIN plan.allocations : plan.allocations[i].budget > 0

\* C3: a budget edit stores the value clamped to >= 0; when the new total is
\* > 0 every percentage is budget / total * 100 rounded to one decimal, when it
\* is 0 every percentage is what it was.
C3_BudgetEditPercentages ==
    BudgetEdit =>
        /\ plan.allocations[last.index].budget = Max(0, ToNumber(last.value))
        /\ IF plan.totalBudget > 0
           THEN \A i \in DOMAIN plan.allocations :
                    IsRounded(plan.allocations[i].percentage,
                              100 * Scale * plan.allocations[i].budget, plan.totalBudget)
           ELSE \A i \in DOMAIN plan.allocations :
                    plan.allocations[i].percentage = last.pre.allocations[i].percentage

\* a budget edit after which a percentage had to be rounded
C3_Witness ==
    /\ BudgetEdit
    /\ plan.totalBudget > 0
    /\ Len(plan.allocations) >= 2
    /\ \E i \in DOMAIN plan.allocations :
         /\ i # last.index
         /\ plan.allocations[i].percentage # last.pre.allocations[i].percentage
         /\ plan.allocations[i].percentage * plan.totalBudget
                # 100 * Scale * plan.allocations[i].budget

\* C4 as stated: with otherBudget > 0 and 0 <= p < 99.9 the percentage read
\* back for the edited allocation is within 0.1 of p.
C4_PercentageRoundTrip ==
    (PercentageEdit /\ OthersOf(last.pre.allocations, last.index) > 0
         /\ ToNumber(last.value) >= 0 /\ ToNumber(last.value) < 999)
        => Abs(plan.allocations[last.index].percentage - ToNumber(last.value)) <= 1

\* C4 amended: the same, provided otherBudget is at least 1000 (the stored
\* budget is rounded to a whole amount, which moves the share by up to
\* 50 / otherBudget).
C4_PercentageRoundTripLargeOthers ==
    (PercentageEdit /\ OthersOf(last.pre.allocations, last.index) >= 1000 * Scale
         /\ ToNumber(last.value) >= 0 /\ ToNumber(last.value) < 999)
        => Abs(plan.allocations[last.index].percentage - ToNumber(last.value)) <= 1

\* a third of the total asked for and read back, with large other budgets
C4_Witness ==
    /\ PercentageEdit
    /\ OthersOf(last.pre.allocations, last.index) >= 1000 * Scale
    /\ ToNumber(last.value) = 333
    /\ plan.allocations[last.index].percentage = 333
    /\ last.pre.allocations[last.index].percentage # 333

\* C5: with otherBudget > 0 a percentage edit stores
\* round(otherBudget * p' / (100 - p')), p' the request limited to [0, 100] and
\* capped at 99.9; A(40%, 20000), B(60%, 30000), A's percentage set to 50
\* gives A 30000, total 60000, 50.0% and 50.0%.
C5_PercentageEditBudget ==
    PercentageEdit =>
        LET other == OthersOf(last.pre.allocations, last.index)
            capped == Min(999, Requested)
        IN  /\ other > 0 =>
                /\ plan.allocations[last.index].budget % Scale = 0
                /\ IsRounded(plan.allocations[last.index].budget \div Scale,
                             other * capped, Scale * (100 * Scale - capped))
            /\ ( /\ Len(last.pre.allocations) = 2
                 /\ last.index = 1
                 /\ last.pre.allocations[1].budget = 20000 * Scale
                 /\ last.pre.allocations[2].budget = 30000 * Scale
                 /\ ToNumber(last.value) = 50 * Scale )
               => /\ plan.allocations[1].budget = 30000 * Scale
                  /\ plan.totalBudget = 60000 * Scale
                  /\ plan.allocations[1].percentage = 50 * Scale
                  /\ plan.allocations[2].percentage = 50 * Scale

\* the scenario: A(40%, 20000), B(60%, 30000) of a plan of 50000, A set to 50%
C5_Witness ==
    /\ PercentageEdit
    /\ Len(last.pre.allocations) = 2
    /\ last.index = 1
    /\ last.pre.totalBudget = 50000 * Scale
    /\ last.pre.allocations[1].budget = 20000 * Scale
    /\ last.pre.allocations[1].percentage = 40 * Scale
    /\ last.pre.allocations[2].budget = 30000 * Scale
    /\ last.pre.allocations[2].percentage = 60 * Scale
    /\ ToNumber(last.value) = 50 * Scale
    /\ plan.totalBudget = 60000 * Scale

\* C6 as stated: with otherBudget = 0 a percentage edit stores
\* round(T * p' / 100), T the total before the edit and p' the request limited
\* to [0, 100] and capped at 99.9; with T = 0 budget and total are 0.
C6_PercentageEditNoOthersCapped ==
    (PercentageEdit /\ OthersOf(last.pre.allocations, last.index) = 0) =>
        /\ plan.allocations[last.index].budget % Scale = 0
        /\ IsRounded(plan.allocations[last.index].budget \div Scale,
                     last.pre.totalBudget * Min(999, Requested), 100 * Scale * Scale)
        /\ last.pre.totalBudget = 0 =>
               plan.allocations[last.index].budget = 0 /\ plan.totalBudget = 0

\* C6 amended: the same with p' the request limited to [0, 100]; the cap at
\* 99.9 is not applied when otherBudget is 0.
C6_PercentageEditNoOthers ==
    (PercentageEdit /\ OthersOf(last.pre.allocations, last.index) = 0) =>
        /\ plan.allocations[last.index].budget % Scale = 0
        /\ IsRounded(plan.allocations[last.index].budget \div Scale,
                     last.pre.totalBudget * Requested, 100 * Scale * Scale)
        /\ last.pre.totalBudget = 0 =>
               plan.allocations[last.index].budget = 0 /\ plan.totalBudget = 0

\* the only allocation with a budget is given 100% of a positive total
C6_Witness ==
    /\ PercentageEdit
    /\ OthersOf(last.pre.allocations, last.index) = 0
    /\ Len(last.pre.allocations) >= 2
    /\ last.pre.totalBudget > 0
    /\ ToNumber(last.value) >= 100 * Scale
    /\ plan.allocations[last.index].budget = last.pre.totalBudget

-----------------------------------------------------------------------------
(* Properties of the plan store and of the analysis patch *)

\* j is the JSON text of the object a: the same members with the same
\* values, the identity left out
AllocWrittenAs(a, j) ==
    /\ DOMAIN j = DOMAIN a \ {"ref"}
    /\ \A f \in DOMAIN j : j[f] = a[f]

PlanWrittenAs(q, j) ==
    /\ DOMAIN j = DOMAIN q \ {"arr"}
    /\ \A f \in DOMAIN j \ {"allocations"} : j[f] = q[f]
    /\ Len(j.allocations) = Len(q.allocations)
    /\ \A i \in DOMAIN q.allocations : AllocWrittenAs(q.allocations[i], j.allocations[i])

\* the persisted item is the text of the collection in memory
PersistedIs(plans) ==
    /\ storage.item = "text"
    /\ Len(storage.json) = Len(plans)
    /\ \A k \in DOMAIN plans : PlanWrittenAs(plans[k], storage.json[k])

\* two plans with the same members and values, whatever their identities
SameStructure(a, b) ==
    /\ DOMAIN a = DOMAIN b
    /\ \A f \in DOMAIN a \ {"allocations", "arr"} : a[f] = b[f]
    /\ Len(a.allocations) = Len(b.allocations)
    /\ \A i \in DOMAIN a.allocations :
         /\ DOMAIN a.allocations[i] = DOMAIN b.allocations[i]
         /\ \A f \in DOMAIN a.allocations[i] \ {"ref"} :
              a.allocations[i][f] = b.allocations[i][f]

PositionsOf(plans, id) == {k \in DOMAIN plans : plans[k].id = id}

\* C7: when the analysis started for plan id X resolves, the open plan is
\* patched (its analysis replaced, nothing else) if and only if it is not null
\* and has id X; otherwise the open plan, or its absence, stays as it is.
C7_StaleAnalysisGuard ==
    last.op = "analysisResolve" =>
        IF last.prePlan # NullPlan /\ last.prePlan.id = last.newPlanId
        THEN /\ plan # NullPlan
             /\ plan.analysis = last.analysis
             /\ \A f \in DOMAIN plan \ {"analysis"} : plan[f] = last.prePlan[f]
        ELSE plan = last.prePlan

\* the analysis resolves while another plan, opened from the history, is open
C7_Witness ==
    /\ last.op = "analysisResolve"
    /\ last.prePlan # NullPlan
    /\ last.prePlan.id # last.newPlanId
    /\ last.prePlan.analysis # last.analysis
    /\ plan = last.prePlan

\* C8: after save(plan) the collection has exactly one entry with plan.id and
\* it is plan; an existing entry is replaced at its position and the length is
\* unchanged, otherwise plan is put at the head; the other entries keep their
\* content and order; the persisted item is the text of the new collection.
C8_Save ==
    last.op = "save" =>
        LET pre == last.pre
            saved == last.planToSave
            was == PositionsOf(pre, saved.id)
            now == PositionsOf(savedPlans, saved.id)
        IN  /\ Cardinality(now) = 1
            /\ \A k \in now : savedPlans[k] = saved
            /\ IF was # {}
               THEN /\ now = was
                    /\ Len(savedPlans) = Len(pre)
                    /\ \A k \in DOMAIN pre \ was : savedPlans[k] = pre[k]
               ELSE /\ now = {1}
                    /\ Len(savedPlans) = Len(pre) + 1
                    /\ \A k \in DOMAIN pre : savedPlans[k + 1] = pre[k]
            /\ PersistedIs(savedPlans)

\* an edited plan replaces its entry at the second position
C8_Witness ==
    /\ last.op = "save"
    /\ Len(last.pre) = 2
    /\ last.pre[2].id = last.planToSave.id
    /\ last.pre[2].totalBudget # last.planToSave.totalBudget
    /\ savedPlans[2] = last.planToSave
    /\ savedPlans[1] = last.pre[1]

\* C9: after delete(id) no entry has that id, the other entries are kept in
\* their order and the new collection is persisted; the open plan becomes null
\* and the view history if the open plan had this id, otherwise both stay.
C9_Delete ==
    last.op = "delete" =>
        LET pre == last.pre
            kept == DOMAIN pre \ PositionsOf(pre, last.id)
        IN  /\ PositionsOf(savedPlans, last.id) = {}
            /\ Len(savedPlans) = Cardinality(kept)
            /\ \A k \in kept :
                 savedPlans[Cardinality({j \in kept : j <= k})] = pre[k]
            /\ PersistedIs(savedPlans)
            /\ IF last.prePlan # NullPlan /\ last.prePlan.id = last.id
               THEN plan = NullPlan /\ view = "history"
               ELSE plan = last.prePlan /\ view = last.preView

\* the open plan, second of two entries, is deleted
C9_Witness ==
    /\ last.op = "delete"
    /\ Len(last.pre) = 2
    /\ last.pre[2].id = last.id
    /\ last.prePlan # NullPlan
    /\ last.prePlan.id = last.id
    /\ plan = NullPlan
    /\ Len(savedPlans) = 1

-----------------------------------------------------------------------------
(* Properties of the startup, of sharing and of the generation pipeline *)

\* C11: when the persisted value is absent or corrupt (text that is not JSON,
\* or JSON that is not a list of plans) the startup load leaves the saved
\* collection the empty list, and no later operation crashes: no render
\* throws and no save throws.
C11_CorruptLoadTolerated ==
    /\ (last.op = "mount" /\ last.stored.item # "text")
           => (savedKind = "list" /\ savedPlans = <<>>)
    /\ ~crashed
    /\ last.op # "saveThrew"

\* C12: handleShare makes a token for every plan, and the page opened with
\* the token has the plan open, read-only, in the dashboard.
C12_ShareRoundTrip ==
    /\ last.op = "share" => ~last.url.threw
    /\ (last.op = "mount" /\ last.hash.kind = "share" /\ last.hash.data.b64
           /\ last.hash.data.text.item = "plan")
          => /\ plan # NullPlan
             /\ PlanWrittenAs(plan, last.hash.data.text.json)
             /\ isReadOnly
             /\ view = "dashboard"

\* the fragment of a mount carried '#share=' and data that is not base64 or
\* not the base64 of JSON
UndecodableAtMount ==
    /\ last.op = "mount"
    /\ last.hash.kind = "share"
    /\ (~last.hash.data.b64 \/ last.hash.data.text.item = "malformed")

\* C13: when the fragment is present and cannot be decoded or parsed, the open
\* plan stays null, isReadOnly false and the view onboarding, and the saved
\* collection is loaded as without a fragment.
C13_ShareDecodeFailure ==
    UndecodableAtMount =>
        /\ plan = NullPlan
        /\ ~isReadOnly
        /\ view = "onboarding"
        /\ IF last.stored.item = "text"
           THEN /\ Len(savedPlans) = Len(last.stored.json)
                /\ \A k \in DOMAIN savedPlans : PlanWrittenAs(savedPlans[k], last.stored.json[k])
           ELSE savedPlans = <<>>

\* a mount with an undecodable fragment that loaded a saved plan
C13_Witness ==
    /\ UndecodableAtMount
    /\ ~last.hash.data.b64
    /\ Len(savedPlans) = 1
    /\ plan = NullPlan

\* C14: when the allocation call has resolved the dashboard shows a plan
\* whose analysis sections hold the placeholders while the analysis call is
\* pending; when the analysis call resolves and the open plan has its id, the
\* analysis is replaced and everything else, edits included, is kept.
C14_OptimisticRender ==
    /\ last.op = "allocationsResolve"
          => /\ view = "dashboard"
             /\ plan # NullPlan
             /\ plan.analysis = PendingAnalysis
             /\ gen.pc = "analysis"
    /\ (last.op = "analysisResolve" /\ last.prePlan # NullPlan
           /\ last.prePlan.id = last.newPlanId)
          => /\ plan.analysis = last.analysis
             /\ plan.allocations = last.prePlan.allocations
             /\ plan.totalBudget = last.prePlan.totalBudget
             /\ \A f \in DOMAIN plan \ {"analysis"} : plan[f] = last.prePlan[f]

\* the analysis resolves for a plan that was edited while the call was pending
C14_Witness ==
    /\ last.op = "analysisResolve"
    /\ last.prePlan # NullPlan
    /\ last.prePlan.id = last.newPlanId
    /\ last.prePlan.analysis = PendingAnalysis
    /\ plan.analysis # PendingAnalysis
    /\ plan.allocations = last.prePlan.allocations
    /\ plan.totalBudget # 100000
    /\ nEdits = 1

\* the sections of an analysis
Sections == {"roi", "swot", "marketing4p", "competitorInsight", "creativeSuggestions"}

\* C15: the allocation fallback is an even split: at most three entries, one
\* per selected (or default) type, all with the same percentage and the same
\* budget, the percentages summing to 100 within one point and the budgets to
\* the requested total within one percent of it.
C15_FallbackEvenSplit ==
    (last.op = "allocationsResolve" /\ last.answer[1].reasoning = "FALLBACK_REASONING")
        => LET a == last.answer
               n == Len(a)
           IN  /\ n \in 1..3
               /\ \A i \in 1..n : /\ a[i].percentage = a[1].percentage
                                   /\ a[i].budget = a[1].budget
               /\ Abs(PercentagesUpTo(a, n) - 100 * Scale) <= Scale
               /\ 100 * Abs(BudgetsUpTo(a, n) - plan.totalBudget) <= plan.totalBudget

EditedMembers == {"allocations", "totalBudget", "arr"}

\* C17: a free-text edit of allocation i changes that field of allocation i
\* only: the budgets, the percentages, the totalBudget, the other allocations
\* and the other fields of the plan are as before.
C17_TextEditFrame ==
    (last.op = "edit" /\ last.field \in TextFields)
        => LET pre == last.pre
               i == last.index
           IN  /\ plan.totalBudget = pre.totalBudget
               /\ \A f \in DOMAIN plan \ EditedMembers : plan[f] = pre[f]
               /\ DOMAIN plan = DOMAIN pre
               /\ Len(plan.allocations) = Len(pre.allocations)
               /\ \A j \in DOMAIN pre.allocations :
                      /\ plan.allocations[j].budget = pre.allocations[j].budget
                      /\ plan.allocations[j].percentage = pre.allocations[j].percentage
                      /\ j # i => plan.allocations[j] = pre.allocations[j]
               /\ plan.allocations[i][last.field] = last.value
               /\ DOMAIN plan.allocations[i] = DOMAIN pre.allocations[i] \cup {last.field}
               /\ \A f \in DOMAIN pre.allocations[i] \ {last.field, "ref"} :
                      plan.allocations[i][f] = pre.allocations[i][f]
               /\ savedPlans = last.preSaved

\* the rationale of the second allocation is retyped in a plan whose total is
\* not the sum of its budgets
C17_Witness ==
    /\ last.op = "edit" /\ last.field = "reasoning" /\ last.index = 2
    /\ last.pre.totalBudget # SumBudgets(last.pre.allocations)
    /\ last.pre.allocations[2].reasoning # "edited"
    /\ plan.allocations[2].reasoning = "edited"

\* C18: a budget or percentage edit of allocation i changes no other
\* allocation's budget, no text field of any allocation, and none of the
\* plan's id, name, createdAt, profile, regions, duration and analysis.
C18_NumericEditFrame ==
    NumericEdit
        => LET pre == last.pre
               i == last.index
           IN  /\ \A f \in {"id", "name", "createdAt", "userProfile", "regions",
                              "duration", "analysis"} : plan[f] = pre[f]
               /\ DOMAIN plan = DOMAIN pre
               /\ Len(plan.allocations) = Len(pre.allocations)
               /\ \A j \in DOMAIN pre.allocations :
                      /\ j # i => plan.allocations[j].budget = pre.allocations[j].budget
                      /\ DOMAIN plan.allocations[j] = DOMAIN pre.allocations[j]
                      /\ \A f \in DOMAIN pre.allocations[j] \ {"budget", "percentage", "ref"} :
                             plan.allocations[j][f] = pre.allocations[j][f]

\* the budget of the first of two allocations is changed and the second's
\* percentage moves while its budget stays
C18_Witness ==
    /\ NumericEdit /\ last.index = 1
    /\ Len(plan.allocations) = 2
    /\ plan.allocations[1].budget # last.pre.allocations[1].budget
    /\ plan.allocations[2].percentage # last.pre.allocations[2].percentage
    /\ plan.allocations[2].budget = last.pre.allocations[2].budget
    /\ plan.allocations[2].budget > 0

\* C19: a negative budget is stored as 0, a percentage outside [0, 100] acts
\* as the nearest end of it, an input that is not a number acts as 0, and the
\* budgets and the totalBudget that come out are never negative.
C19_TolerantNumericInput ==
    NumericEdit
        => LET pre == last.pre
               i == last.index
               n == last.value.n
               other == OthersOf(pre.allocations, i)
               edited == plan.allocations[i].budget
           IN  /\ (BudgetEdit /\ (last.value.empty \/ n < 0)) => edited = 0
               /\ (PercentageEdit /\ (last.value.empty \/ n < 0)) => edited = 0
               /\ (PercentageEdit /\ ~last.value.empty /\ n > 100 * Scale)
                      => IF other = 0
                         THEN IsRounded(edited \div Scale, pre.totalBudget, Scale)
                         ELSE IsRounded(edited \div Scale, 999 * other, Scale)
               /\ \A j \in DOMAIN plan.allocations : plan.allocations[j].budget >= 0
               /\ plan.totalBudget >= 0
               /\ plan.totalBudget = BudgetsUpTo(plan.allocations, Len(plan.allocations))

\* a negative budget typed over a positive one
C19_Witness ==
    /\ BudgetEdit
    /\ ~last.value.empty /\ last.value.n < 0
    /\ last.pre.allocations[last.index].budget > 0
    /\ plan.allocations[last.index].budget = 0
    /\ plan.totalBudget > 0

\* the ids of a collection in memory, and of a persisted one
IdsOf(plans) == {plans[k].id : k \in DOMAIN plans}
StoredIds(stored) ==
    IF stored.item = "text" THEN {stored.json[k].id : k \in DOMAIN stored.json} ELSE {}

\* C20: a save or delete in a tab persists the list that tab holds in memory,
\* made from the list it held before and from nothing the other tab has
\* persisted meanwhile: what the other tab had saved and this tab never
\* loaded is gone from the persisted collection, and what it had deleted is
\* back.
C20_LastWriterWins ==
    /\ last.op \in {"otherSave", "otherDelete"}
          => /\ PersistedIs(otherTab.savedPlans)
             /\ StoredIds(storage) =
                    IF last.op = "otherSave" THEN IdsOf(last.pre) \cup {last.id}
                    ELSE IdsOf(last.pre) \ {last.id}
    /\ last.op = "save"
          => /\ PersistedIs(savedPlans)
             /\ StoredIds(storage) = IdsOf(last.pre) \cup {last.planToSave.id}
    /\ last.op = "delete"
          => /\ PersistedIs(savedPlans)
             /\ StoredIds(storage) = IdsOf(last.pre) \ {last.id}

\* the first tab has saved a plan that was persisted, the second tab, loaded
\* before that, saves its own, and the first tab's plan is no longer persisted
C20_Witness ==
    /\ last.op = "otherSave"
    /\ \E k \in DOMAIN savedPlans :
          /\ savedPlans[k].id \in StoredIds(last.stored)
          /\ savedPlans[k].id \notin StoredIds(storage)
    /\ OtherTabPlan.id \in StoredIds(storage)

\* C21: the saved collection is ordered newest first by createdAt.
C21_NewestFirst ==
    savedKind = "list"
        => \A k \in 1..(Len(savedPlans) - 1) :
              savedPlans[k].createdAt >= savedPlans[k + 1].createdAt

\* C24: the plan reconstructed from a share reference is never the open plan
\* with isReadOnly false.
C24_SharedPlanReadOnly ==
    (plan # NullPlan /\ plan.id = SharedPlan.id) => isReadOnly

\* C25: opening the comparison leaves the saved collection and the open plan
\* as they were, the order of every allocation list included.
C25_CompareDoesNotModify ==
    (last.op = "compare" /\ last.opened)
        => /\ savedPlans = last.preSaved
           /\ plan = last.prePlan

\* C29: in the history view every selected id is the id of a plan of the list
\* and at most two are selected, and the compare action with two ids selected
\* opens the comparison with the two plans of these ids.
C29_SelectionWithinList ==
    /\ view = "history"
          => /\ Range(selectedIds) \subseteq IdsOf(savedPlans)
             /\ Len(selectedIds) <= 2
    /\ last.op = "compare"
          => /\ last.opened
             /\ view = "compare"
             /\ Len(comparePlans) = 2
             /\ IdsOf(comparePlans) = Range(last.selected)

\* C23: an allocation edit leaves the saved collection in memory as it was;
\* the persisted text is written by save and delete only.
C23_NoAutomaticSave ==
    last.op = "edit" => savedPlans = last.preSaved

\* C26: when the analysis call resolves, an entry of the saved collection
\* with the id of the generated plan, in memory and persisted, holds the
\* placeholders; it holds them until a save; opened from the history with no
\* call in flight, every section of it is shown as loading.
C26_SavedWhilePending ==
    /\ [](last.op = "analysisResolve"
             => /\ \A k \in DOMAIN savedPlans :
                      savedPlans[k].id = last.newPlanId
                          => savedPlans[k].analysis = PendingAnalysis
                /\ storage.item = "text"
                      => \A k \in DOMAIN storage.json :
                            storage.json[k].id = last.newPlanId
                                => storage.json[k].analysis = PendingAnalysis)
    /\ []((last.op = "view" /\ plan.analysis = PendingAnalysis /\ gen.pc = "idle")
             => \A f \in Sections : isAnalysisLoading(plan.analysis[f]))
    /\ [][\A k \in DOMAIN savedPlans :
             \A j \in DOMAIN savedPlans' :
                (/\ savedPlans[k].id = savedPlans'[j].id
                 /\ savedPlans[k].analysis = PendingAnalysis
                 /\ last'.op # "save")
                    => savedPlans'[j].analysis = PendingAnalysis]_vars

\* a plan saved while its analysis was pending is opened from the history
\* after the call has resolved
C26_Witness ==
    /\ last.op = "view"
    /\ gen.pc = "idle"
    /\ plan.id = IdOf(1)
    /\ plan.analysis = PendingAnalysis
    /\ storage.item = "text"
    /\ storage.json[1].analysis = PendingAnalysis

\* C27: isProcessing is true exactly while a pipeline is pending; a
\* generation starts only when none is; when the pipeline has ended,
\* resolved or thrown, isProcessing is false.
C27_OnePipeline ==
    /\ [](isProcessing <=> gen.pc # "idle")
    /\ [](last.op \in {"allocationsReject", "analysisReject", "analysisResolve"}
             => ~isProcessing)
    /\ [][last'.op = "generateStart" => (gen.pc = "idle" /\ ~isProcessing)]_vars

\* the user is back at the configuration form while the analysis call of
\* the pipeline is pending
C27_Witness ==
    /\ view = "config"
    /\ gen.pc = "analysis"
    /\ isProcessing
    /\ plan # NullPlan

\* C28: when the allocation call resolves, the generated plan is the open
\* plan, isReadOnly is false and the view is dashboard, whatever was open and
\* shown before.
C28_GeneratedPlanOpens ==
    last.op = "allocationsResolve"
        => /\ plan # NullPlan
           /\ plan.id = gen.newPlanId
           /\ last.prePlan # NullPlan => plan.id # last.prePlan.id
           /\ Len(plan.allocations) = Len(last.answer)
           /\ \A i \in DOMAIN last.answer :
                  /\ plan.allocations[i].budget = last.answer[i].budget
                  /\ plan.allocations[i].percentage = last.answer[i].percentage
           /\ view = "dashboard"
           /\ ~isReadOnly

\* the call resolves while a saved plan, opened and edited meanwhile, is shown
C28_Witness ==
    /\ last.op = "allocationsResolve"
    /\ last.prePlan # NullPlan
    /\ last.prePlan.id = EarlierPlan.id
    /\ last.prePlan.totalBudget # EarlierPlan.totalBudget
    /\ last.preView = "dashboard"
    /\ plan.id = gen.newPlanId

\* C30: the configuration view is shown only with a profile present, and
\* handleGeneratePlan is never invoked with a null profile.
C30_ConfigNeedsProfile ==
    /\ view = "config" => profile # NullProfile
    /\ last.op # "generateNoProfile"

\* A reader of CSV text: fields are separated by commas and records by
\* newlines; a field that starts with a double quote runs to its closing
\* quote, with two quotes standing for one; a quote elsewhere is an error.
CsvReaderStart ==
    [mode |-> "start", field |-> <<>>, record |-> <<>>, records |-> <<>>, ok |-> TRUE]

CsvEndField(st) == [st EXCEPT !.record = Append(@, st.field), !.field = <<>>, !.mode = "start"]

CsvEndRecord(st) ==
    LET e == CsvEndField(st) IN [e EXCEPT !.records = Append(@, e.record), !.record = <<>>]

CsvRead(st, c) ==
    IF ~st.ok THEN st
    ELSE IF st.mode = "quoted"
    THEN IF c = "\"" THEN [st EXCEPT !.mode = "closed"]
         ELSE [st EXCEPT !.field = Append(@, c)]
    ELSE IF c = ","  THEN CsvEndField(st)
    ELSE IF c = "\n" THEN CsvEndRecord(st)
    ELSE IF c = "\""
    THEN IF st.mode = "start" THEN [st EXCEPT !.mode = "quoted"]
         ELSE IF st.mode = "closed" THEN [st EXCEPT !.mode = "quoted", !.field = Append(@, c)]
         ELSE [st EXCEPT !.ok = FALSE]
    ELSE IF st.mode = "closed" THEN [st EXCEPT !.ok = FALSE]
    ELSE [st EXCEPT !.mode = "plain", !.field = Append(@, c)]

RECURSIVE CsvReadFirst(_, _)
CsvReadFirst(text, n) ==
    IF n = 0 THEN CsvReaderStart
    ELSE LET st == CsvReadFirst(text, n - 1) IN CsvRead(st, text[n])

CsvReadAll(text) ==
    LET st == CsvReadFirst(text, Len(text))
    IN  IF st.mode = "quoted" THEN [st EXCEPT !.ok = FALSE] ELSE CsvEndRecord(st)

\* C22: the line the export writes for an allocation reads back as one
\* record of six fields, whose name, type, specification and rationale are the
\* allocation's texts (newlines of the rationale as spaces), and the exported
\* text is the header and these lines, one after the other.
C22_CsvWellFormed ==
    last.op = "exportCSV"
        => /\ last.csv = join(<<join(csvHeaders, <<",">>)>> \o last.lines, <<"\n">>)
           /\ Len(last.lines) = Len(plan.allocations)
           /\ \A i \in DOMAIN plan.allocations :
                  LET item == plan.allocations[i]
                      read == CsvReadAll(last.lines[i])
                  IN  /\ read.ok
                      /\ Len(read.records) = 1
                      /\ Len(read.records[1]) = 6
                      /\ read.records[1][1] = item.name
                      /\ read.records[1][2] = item.type
                      /\ read.records[1][3] = specificationsOrDefault(item)
                      /\ read.records[1][6] = newlinesToSpaces(item.reasoning)

====
